---------------------------- MODULE Spec2Model ----------------------------
(***************************************************************************)
(* The geometry kernel of src/lib/vectors.py: Vector3, Plane, Triangle and *)
(* Line (the ray) with collide, collide_triangles and collide_plane; and   *)
(* the undo history of the editor window of src/mkdd_editor.py.            *)
(*                                                                         *)
(* Numbers.  A float64 is modelled as a pair <<n, d>>:                     *)
(*   d > 0          the finite value n/d, in lowest terms;                 *)
(*   <<0, 0>>       NaN;                                                   *)
(*   <<1, 0>>, <<-1, 0>>   +Infinity, -Infinity.                           *)
(* Finite arithmetic is exact (no rounding); a result whose magnitude      *)
(* exceeds the largest finite value MAX_FLOAT overflows to an infinity,    *)
(* and invalid operations (0/0, Inf-Inf, 0*Inf) give NaN, as IEEE-754      *)
(* does.  MAX_FLOAT is scaled down (MaxFinite) so that integers stay       *)
(* small; signed zeros are not distinguished.  The inputs of the model are *)
(* chosen so that every norm taken is rational.                            *)
(***************************************************************************)
EXTENDS Integers, Sequences, FiniteSets, TLC

\* The largest finite value of the number format (sys.float_info.max), scaled.
MaxFinite == 1024

\* The largest number of triangles in the collection handed to a query.
MaxTris == 2

-----------------------------------------------------------------------------
(* float64 *)

Abs(n) == IF n < 0 THEN -n ELSE n

Sgn(n) == IF n > 0 THEN 1 ELSE IF n < 0 THEN -1 ELSE 0

RECURSIVE Gcd(_, _)
Gcd(a, b) == IF b = 0 THEN a ELSE Gcd(b, a % b)

NaN == <<0, 0>>

\* The float nearest n/d (d # 0): lowest terms, overflow to +-Infinity.
Float(n, d) ==
    IF Abs(n) > MaxFinite * Abs(d) THEN <<Sgn(n) * Sgn(d), 0>>
    ELSE LET g == Gcd(Abs(n), Abs(d))
             s == Sgn(d)
         IN  <<(s * n) \div g, (s * d) \div g>>

F(n) == <<n, 1>>

IsNaN(a) == a = NaN

IsFinite(a) == a[2] # 0

FNeg(a) == <<-a[1], a[2]>>

FAdd(a, b) ==
    IF a[2] # 0 /\ b[2] # 0 THEN Float(a[1] * b[2] + b[1] * a[2], a[2] * b[2])
    ELSE IF IsNaN(a) \/ IsNaN(b) THEN NaN
    ELSE IF a[2] = 0 /\ b[2] = 0 THEN (IF a[1] = b[1] THEN a ELSE NaN)
    ELSE IF a[2] = 0 THEN a ELSE b

FSub(a, b) == FAdd(a, FNeg(b))

FMul(a, b) ==
    IF a[2] # 0 /\ b[2] # 0 THEN Float(a[1] * b[1], a[2] * b[2])
    ELSE IF IsNaN(a) \/ IsNaN(b) THEN NaN
    ELSE <<Sgn(a[1]) * Sgn(b[1]), 0>>

FDiv(a, b) ==
    IF a[2] # 0 /\ b[2] # 0
    THEN IF b[1] = 0 THEN <<Sgn(a[1]), 0>>
         ELSE Float(a[1] * b[2], a[2] * b[1])
    ELSE IF IsNaN(a) \/ IsNaN(b) THEN NaN
    ELSE IF a[2] = 0 /\ b[2] = 0 THEN NaN
    ELSE IF b[2] = 0 THEN F(0)
    ELSE <<a[1] * (IF b[1] < 0 THEN -1 ELSE 1), 0>>

\* Comparisons: every comparison with NaN is false.
FLt(a, b) ==
    /\ ~IsNaN(a)
    /\ ~IsNaN(b)
    /\ IF a[2] = 0 /\ b[2] = 0 THEN a[1] < b[1]
       ELSE IF a[2] = 0 THEN a[1] < 0
       ELSE IF b[2] = 0 THEN b[1] > 0
       ELSE a[1] * b[2] < b[1] * a[2]

FEq(a, b) == ~IsNaN(a) /\ ~IsNaN(b) /\ a = b

FGt(a, b) == FLt(b, a)

FLe(a, b) == FLt(a, b) \/ FEq(a, b)

FGe(a, b) == FLe(b, a)

\* The square root of a float whose root is rational (or NaN, +Infinity).
ISqrt(n) == CHOOSE r \in 0..n : r * r = n

FSqrt(a) ==
    IF a[2] = 0 THEN (IF a[1] = 1 THEN a ELSE NaN)
    ELSE IF a[1] < 0 THEN NaN
    ELSE Float(ISqrt(a[1]), ISqrt(a[2]))

-----------------------------------------------------------------------------
(* Vector3: a triple of floats *)

Vector3(x, y, z) == <<x, y, z>>

\* Vector3 from integer components.
V(x, y, z) == <<F(x), F(y), F(z)>>

\* Vector3 from components given in quarters: Q(1, 1, 20) is (0.25, 0.25, 5).
Q(x, y, z) == <<Float(x, 4), Float(y, 4), Float(z, 4)>>

dot(a, b) ==
    FAdd(FAdd(FMul(a[1], b[1]), FMul(a[2], b[2])), FMul(a[3], b[3]))

\* Mutant: the components of the product are stored one place further on.
cross_Rotated(a, b) ==
    <<FSub(FMul(a[1], b[2]), FMul(a[2], b[1])),
      FSub(FMul(a[2], b[3]), FMul(a[3], b[2])),
      FSub(FMul(a[3], b[1]), FMul(a[1], b[3]))>>

cross(a, b) ==
    <<FSub(FMul(a[2], b[3]), FMul(a[3], b[2])),
      FSub(FMul(a[3], b[1]), FMul(a[1], b[3])),
      FSub(FMul(a[1], b[2]), FMul(a[2], b[1]))>>

norm(a) == FSqrt(dot(a, a))

VDiv(a, s) == <<FDiv(a[1], s), FDiv(a[2], s), FDiv(a[3], s)>>

VMul(a, s) == <<FMul(a[1], s), FMul(a[2], s), FMul(a[3], s)>>

VAdd(a, b) == <<FAdd(a[1], b[1]), FAdd(a[2], b[2]), FAdd(a[3], b[3])>>

VSub(a, b) == <<FSub(a[1], b[1]), FSub(a[2], b[2]), FSub(a[3], b[3])>>

normalize(a) == VDiv(a, norm(a))

\* not self.array.any(): NaN and the infinities are truthy.
is_zero(a) == a[1] = F(0) /\ a[2] = F(0) /\ a[3] = F(0)

-----------------------------------------------------------------------------
(* Plane *)

\* Mutant: the constructor scales the normal to unit length.
Plane_NormalizedNormal(origin, vec1, vec2) ==
    [origin |-> origin, _vec1 |-> vec1, _vec2 |-> vec2,
     normal |-> normalize(cross(vec1, vec2))]

Plane(origin, vec1, vec2) ==
    [origin |-> origin, _vec1 |-> vec1, _vec2 |-> vec2,
     normal |-> cross(vec1, vec2)]

from_implicit(origin, normal) ==
    LET dummyvec == V(0, 0, 0)
    IN  [Plane(origin, dummyvec, dummyvec) EXCEPT !.normal = normal]

\* Mutant: the origin of the plane is not subtracted from the point.
point_is_on_plane_NoOrigin(plane, vec) == FEq(dot(vec, plane.normal), F(0))

\* (vec - self.origin).dot(self.normal) == 0
point_is_on_plane(plane, vec) ==
    FEq(dot(VSub(vec, plane.origin), plane.normal), F(0))

\* Mutant: no plane is ever taken as parallel to the ray.
Plane_is_parallel_Never(plane, vec) == FALSE

Plane_is_parallel(plane, vec) == FEq(dot(plane.normal, vec), F(0))

xy_aligned(origin) == Plane(origin, V(1, 0, 0), V(0, 1, 0))

\* Mutant: the plane is spanned by the x and y axes.
xz_aligned_AsXY(origin) == Plane(origin, V(1, 0, 0), V(0, 1, 0))

xz_aligned(origin) == Plane(origin, V(1, 0, 0), V(0, 0, 1))

yz_aligned(origin) == Plane(origin, V(0, 1, 0), V(0, 0, 1))

-----------------------------------------------------------------------------
(* Triangle *)

\* Mutant: the edges are crossed in the other order.
Triangle_CrossSwapped(p1, p2, p3) ==
    LET p1_to_p2 == VSub(p2, p1)
        p1_to_p3 == VSub(p3, p1)
        n        == cross(p1_to_p3, p1_to_p2)
    IN  [origin   |-> p1,
         p2       |-> p2,
         p3       |-> p3,
         p1_to_p2 |-> p1_to_p2,
         p1_to_p3 |-> p1_to_p3,
         p2_to_p3 |-> VSub(p3, p2),
         p3_to_p1 |-> VSub(p1, p3),
         normal   |-> IF ~is_zero(n) THEN normalize(n) ELSE n]

\* Mutant: the normal is normalized even when it is the zero vector.
Triangle_AlwaysNormalized(p1, p2, p3) ==
    LET p1_to_p2 == VSub(p2, p1)
        p1_to_p3 == VSub(p3, p1)
    IN  [origin   |-> p1,
         p2       |-> p2,
         p3       |-> p3,
         p1_to_p2 |-> p1_to_p2,
         p1_to_p3 |-> p1_to_p3,
         p2_to_p3 |-> VSub(p3, p2),
         p3_to_p1 |-> VSub(p1, p3),
         normal   |-> normalize(cross(p1_to_p2, p1_to_p3))]

Triangle(p1, p2, p3) ==
    LET p1_to_p2 == VSub(p2, p1)
        p1_to_p3 == VSub(p3, p1)
        n        == cross(p1_to_p2, p1_to_p3)
    IN  [origin   |-> p1,
         p2       |-> p2,
         p3       |-> p3,
         p1_to_p2 |-> p1_to_p2,
         p1_to_p3 |-> p1_to_p3,
         p2_to_p3 |-> VSub(p3, p2),
         p3_to_p1 |-> VSub(p1, p3),
         normal   |-> IF ~is_zero(n) THEN normalize(n) ELSE n]

-----------------------------------------------------------------------------
(* Line: the ray *)

MAX_FLOAT == F(MaxFinite)

Line(origin, direction) ==
    [origin |-> origin, direction |-> normalize(direction)]

\* return Vector3(0, 0, 0), -1
NoCollision == [point |-> V(0, 0, 0), distance |-> F(-1)]

\* A float divided by a zero float raises instead of returning: the methods of
\* a jitclass are compiled with Python's error model for scalar division
\* (the element-wise array division of normalize follows IEEE-754 instead).
ZeroDivisionError == [raised |-> "ZeroDivisionError"]

Raised(result) == "raised" \in DOMAIN result

\* Mutant: the parallel case is not tested.
DotIsZero_Never(d0) == FALSE

\* Mutant: back faces are culled, a ray along the normal misses.
DotIsZero_Culled(d0) == FGe(d0, F(0))

\* if dot == 0.0
DotIsZero(d0) == FEq(d0, F(0))

\* Mutant: a triangle behind the origin is not rejected.
IsBehind_Never(d) == FALSE

\* Mutant: a triangle at distance 0 is rejected too.
IsBehind_OrAt(d) == FLe(d, F(0))

\* if d < 0
IsBehind(d) == FLt(d, F(0))

\* Mutant: only the first edge is checked.
InsideEdges_FirstOnly(tri, intersection_point) ==
    FGt(dot(tri.normal,
            cross(tri.p1_to_p2, VSub(intersection_point, tri.origin))), F(0))

\* Mutant: the check of the edge p3 -> p1 is missing.
InsideEdges_NoThird(tri, intersection_point) ==
    /\ FGt(dot(tri.normal,
               cross(tri.p1_to_p2, VSub(intersection_point, tri.origin))), F(0))
    /\ FGt(dot(tri.normal,
               cross(tri.p2_to_p3, VSub(intersection_point, tri.p2))), F(0))

\* Mutant: the edge checks are >= 0.
InsideEdges_NotStrict(tri, intersection_point) ==
    /\ FGe(dot(tri.normal,
               cross(tri.p1_to_p2, VSub(intersection_point, tri.origin))), F(0))
    /\ FGe(dot(tri.normal,
               cross(tri.p2_to_p3, VSub(intersection_point, tri.p2))), F(0))
    /\ FGe(dot(tri.normal,
               cross(tri.p3_to_p1, VSub(intersection_point, tri.p3))), F(0))

\* The three nested edge checks of the intersection point.
InsideEdges(tri, intersection_point) ==
    LET normal == tri.normal
        C0 == VSub(intersection_point, tri.origin)
        C1 == VSub(intersection_point, tri.p2)
        C2 == VSub(intersection_point, tri.p3)
    IN  /\ FGt(dot(normal, cross(tri.p1_to_p2, C0)), F(0))
        /\ FGt(dot(normal, cross(tri.p2_to_p3, C1)), F(0))
        /\ FGt(dot(normal, cross(tri.p3_to_p1, C2)), F(0))

collide(self, tri) ==
    LET normal == tri.normal
        d0     == dot(normal, self.direction)
    IN  IF DotIsZero(d0) THEN NoCollision
        ELSE IF FEq(d0, F(0)) THEN ZeroDivisionError
        ELSE LET d == FDiv(dot(VSub(tri.origin, self.origin), normal), d0)
             IN  IF IsBehind(d) THEN NoCollision
                 ELSE LET intersection_point ==
                              VAdd(self.origin, VMul(self.direction, d))
                      IN  IF InsideEdges(tri, intersection_point)
                          THEN [point |-> intersection_point, distance |-> d]
                          ELSE NoCollision

\* if distance <= 0: continue
SkipsHit(distance) == FLe(distance, F(0))

\* Mutant: every hit replaces the current best, the last hit wins.
IsNearer_LastHit(distance, best_distance) == FLt(F(0), distance)

\* if 0 < distance < best_distance
IsNearer(distance, best_distance) ==
    FLt(F(0), distance) /\ FLt(distance, best_distance)

\* Mutant: the result starts as the zero vector.
ScanStart_ZeroVector ==
    [best_distance |-> MAX_FLOAT, place_at |-> V(0, 0, 0), winner |-> 0]

\* The locals of collide_triangles before its loop.  `winner` names the object
\* place_at refers to: 0 is the NaN vector built before the loop, k is the
\* point object returned by the collide call on triangles[k].
ScanStart ==
    [best_distance |-> MAX_FLOAT, place_at |-> <<NaN, NaN, NaN>>, winner |-> 0]

\* The locals of collide_triangles after the loop body ran on triangles[1..k].
RECURSIVE Scan(_, _, _)
Scan(self, triangles, k) ==
    IF k = 0 THEN ScanStart
    ELSE LET prev == Scan(self, triangles, k - 1)
             hit  == collide(self, triangles[k])
         IN  IF Raised(prev) THEN prev
             ELSE IF Raised(hit) THEN hit
             ELSE IF SkipsHit(hit.distance) THEN prev
             ELSE IF IsNearer(hit.distance, prev.best_distance)
                  THEN [best_distance |-> hit.distance,
                        place_at |-> hit.point, winner |-> k]
                  ELSE prev

collide_triangles(self, triangles) ==
    LET end == Scan(self, triangles, Len(triangles))
    IN  IF Raised(end) THEN end
        ELSE [place_at |-> end.place_at, winner |-> end.winner]

\* Mutant: the plane through the origin of the ray is not hit.
PlaneInFront_Strict(d) == FGt(d, F(0))

\* if d >= 0
PlaneInFront(d) == FGe(d, F(0))

\* The result is the pair (point, d), or False.
collide_plane(self, plane) ==
    LET pos       == self.origin
        direction == self.direction
        divisor   == dot(plane.normal, direction)
    IN  IF ~Plane_is_parallel(plane, direction)
        THEN IF FEq(divisor, F(0)) THEN ZeroDivisionError
             ELSE LET d == FDiv(dot(VSub(plane.origin, pos), plane.normal),
                                divisor)
                  IN  IF PlaneInFront(d)
                      THEN [hit |-> TRUE,
                            point |-> VAdd(pos, VMul(direction, d)),
                            distance |-> d]
                      ELSE [hit |-> FALSE]
        ELSE [hit |-> FALSE]

-----------------------------------------------------------------------------
(* Objects.  Vector3, Triangle, Plane and Line are objects: a Vector3 owns  *)
(* one array, and the fields of a Triangle, a Plane and a Line are           *)
(* references to Vector3 objects.  A heap is the sequence of the arrays of   *)
(* the Vector3 objects made so far and a reference is an index into it.  A   *)
(* method on a heap yields the heap after the call and what it returned.     *)

\* The fields of obj read through the heap h.
Deref(h, obj) == [f \in DOMAIN obj |-> h[obj[f]]]

\* Vector3(x, y, z): a new object with a new array.
New(h, array) == [heap |-> Append(h, array), ref |-> Len(h) + 1]

\* An in-place operation on self.array; the method returns self.
InPlace(h, self, array) == [heap |-> [h EXCEPT ![self] = array], ref |-> self]

\* One statement after another: Rest(x) with x bound to what the statement
\* before it yielded, so that each statement is computed once.
Bind(yielded, Rest(_)) == CHOOSE out \in { Rest(x) : x \in {yielded} } : TRUE

Vector3_copy(h, self) == New(h, h[self])

Vector3_normalize(h, self) == InPlace(h, self, VDiv(h[self], norm(h[self])))

\* Mutant: normalized() scales self itself.
Vector3_normalized_InPlace(h, self) ==
    InPlace(h, self, VDiv(h[self], norm(h[self])))

Vector3_normalized(h, self) == New(h, VDiv(h[self], norm(h[self])))

Vector3_cross(h, self, other_vec) == New(h, cross(h[self], h[other_vec]))

__truediv__(h, self, other) == New(h, VDiv(h[self], other))

__add__(h, self, other_vec) == New(h, VAdd(h[self], h[other_vec]))

\* Mutant: the product is written into self.
__mul___InPlace(h, self, other) == InPlace(h, self, VMul(h[self], other))

__mul__(h, self, other) == New(h, VMul(h[self], other))

\* Mutant: the difference is written into self.
__sub___InPlace(h, self, other_vec) ==
    InPlace(h, self, VSub(h[self], h[other_vec]))

__sub__(h, self, other_vec) == New(h, VSub(h[self], h[other_vec]))

__iadd__(h, self, other_vec) == InPlace(h, self, VAdd(h[self], h[other_vec]))

__isub__(h, self, other_vec) == InPlace(h, self, VSub(h[self], h[other_vec]))

__imul__(h, self, other) == InPlace(h, self, VMul(h[self], other))

__itruediv__(h, self, other) == InPlace(h, self, VDiv(h[self], other))

\* Plane(origin, vec1, vec2)
Plane__init__(h, origin, vec1, vec2) ==
    Bind(Vector3_cross(h, vec1, vec2), LAMBDA n :
    [heap |-> n.heap,
     self |-> [origin |-> origin, _vec1 |-> vec1, _vec2 |-> vec2,
               normal |-> n.ref]])

\* Triangle(p1, p2, p3)
Triangle__init__(h, p1, p2, p3) ==
    Bind(__sub__(h, p2, p1), LAMBDA p1_to_p2 :
    Bind(__sub__(p1_to_p2.heap, p3, p1), LAMBDA p1_to_p3 :
    Bind(__sub__(p1_to_p3.heap, p3, p2), LAMBDA p2_to_p3 :
    Bind(__sub__(p2_to_p3.heap, p1, p3), LAMBDA p3_to_p1 :
    Bind(Vector3_cross(p3_to_p1.heap, p1_to_p2.ref, p1_to_p3.ref),
         LAMBDA normal :
    [heap |-> IF ~is_zero(normal.heap[normal.ref])
              THEN Vector3_normalize(normal.heap, normal.ref).heap
              ELSE normal.heap,
     self |-> [origin   |-> p1,
               p2       |-> p2,
               p3       |-> p3,
               p1_to_p2 |-> p1_to_p2.ref,
               p1_to_p3 |-> p1_to_p3.ref,
               p2_to_p3 |-> p2_to_p3.ref,
               p3_to_p1 |-> p3_to_p1.ref,
               normal   |-> normal.ref]])))))

\* Mutant: the direction is stored as it is given.
Line__init___NotNormalized(h, origin, direction) ==
    [heap |-> h, self |-> [origin |-> origin, direction |-> direction]]

\* Line(origin, direction)
Line__init__(h, origin, direction) ==
    [heap |-> Vector3_normalize(h, direction).heap,
     self |-> [origin |-> origin, direction |-> direction]]

\* return Vector3(0, 0, 0), -1
NoCollisionObject(h) ==
    LET zero == New(h, V(0, 0, 0))
    IN  [heap |-> zero.heap, point |-> zero.ref, distance |-> F(-1)]

\* The edge check of collide: normal.dot(edge.cross(C)) > 0, where C is the
\* vector from vertex to the intersection point.  Yields the heap after it
\* and whether the check passed.
EdgeCheck(h, normal, edge, intersection_point, vertex) ==
    Bind(__sub__(h, intersection_point, vertex), LAMBDA C :
    Bind(Vector3_cross(C.heap, edge, C.ref), LAMBDA x :
    [heap |-> x.heap, inside |-> FGt(dot(x.heap[normal], x.heap[x.ref]), F(0))]))

\* self.collide(tri) on the heap h.
Line_collide(h, self, tri) ==
    LET normal == tri.normal
        d0     == dot(h[normal], h[self.direction])
    IN  IF DotIsZero(d0) THEN NoCollisionObject(h)
        ELSE IF FEq(d0, F(0)) THEN [heap |-> h, raised |-> "ZeroDivisionError"]
        ELSE
        Bind(__sub__(h, tri.origin, self.origin), LAMBDA to_tri :
        LET d == FDiv(dot(to_tri.heap[to_tri.ref], to_tri.heap[normal]), d0)
        IN  IF IsBehind(d) THEN NoCollisionObject(to_tri.heap)
            ELSE
            Bind(__mul__(to_tri.heap, self.direction, d), LAMBDA along :
            Bind(__add__(along.heap, self.origin, along.ref),
                 LAMBDA intersection_point :
            Bind(EdgeCheck(intersection_point.heap, normal, tri.p1_to_p2,
                           intersection_point.ref, tri.origin), LAMBDA e0 :
            IF ~e0.inside THEN NoCollisionObject(e0.heap)
            ELSE
            Bind(EdgeCheck(e0.heap, normal, tri.p2_to_p3,
                           intersection_point.ref, tri.p2), LAMBDA e1 :
            IF ~e1.inside THEN NoCollisionObject(e1.heap)
            ELSE
            Bind(EdgeCheck(e1.heap, normal, tri.p3_to_p1,
                           intersection_point.ref, tri.p3), LAMBDA e2 :
            IF ~e2.inside THEN NoCollisionObject(e2.heap)
            ELSE [heap     |-> e2.heap,
                  point    |-> intersection_point.ref,
                  distance |-> d]))))))

\* The heap and the locals of collide_triangles before its loop.
ScanBegin(h) ==
    LET nan == New(h, <<NaN, NaN, NaN>>)
    IN  [heap |-> nan.heap, best_distance |-> MAX_FLOAT, place_at |-> nan.ref]

\* The heap and the locals after the loop body ran on tri, from the locals
\* prev on the heap h.
ScanStep(h, self, tri, prev) ==
    Bind(Line_collide(h, self, tri), LAMBDA hit :
    IF Raised(hit) THEN hit
    ELSE IF SkipsHit(hit.distance) THEN [prev EXCEPT !.heap = hit.heap]
    ELSE IF IsNearer(hit.distance, prev.best_distance)
         THEN [heap |-> hit.heap, best_distance |-> hit.distance,
               place_at |-> hit.point]
         ELSE [prev EXCEPT !.heap = hit.heap])

\* The heap and the locals of collide_triangles after the loop body ran on
\* triangles[1..k].
RECURSIVE ScanObjects(_, _, _, _)
ScanObjects(h, self, triangles, k) ==
    IF k = 0 THEN ScanBegin(h)
    ELSE Bind(ScanObjects(h, self, triangles, k - 1), LAMBDA prev :
         IF Raised(prev) THEN prev
         ELSE ScanStep(prev.heap, self, triangles[k], prev))

\* self.collide_triangles(triangles) on the heap h.
Line_collide_triangles(h, self, triangles) ==
    Bind(ScanObjects(h, self, triangles, Len(triangles)), LAMBDA end :
    IF Raised(end) THEN end
    ELSE [heap |-> end.heap, triangles |-> triangles,
          place_at |-> end.place_at])

\* self.collide_plane(plane) on the heap h.
Line_collide_plane(h, self, plane) ==
    LET pos       == self.origin
        direction == self.direction
        divisor   == dot(h[plane.normal], h[direction])
    IN  IF ~Plane_is_parallel(Deref(h, plane), h[direction])
        THEN IF FEq(divisor, F(0))
             THEN [heap |-> h, raised |-> "ZeroDivisionError"]
             ELSE
             Bind(__sub__(h, plane.origin, pos), LAMBDA to_plane :
             LET d == FDiv(dot(to_plane.heap[to_plane.ref],
                               to_plane.heap[plane.normal]), divisor)
             IN  IF PlaneInFront(d)
                 THEN Bind(__mul__(to_plane.heap, direction, d), LAMBDA along :
                      Bind(__add__(along.heap, pos, along.ref), LAMBDA point :
                      [heap |-> point.heap, hit |-> TRUE,
                       point |-> point.ref, distance |-> d]))
                 ELSE [heap |-> to_plane.heap, hit |-> FALSE])
        ELSE [heap |-> h, hit |-> FALSE]

-----------------------------------------------------------------------------
(* The inputs of the model *)

\* Vertex triples: the triangles a mesh may hold.
TriangleInputs ==
    { <<Q(0, 0, 0), Q(4, 0, 0), Q(0, 4, 0)>>,       \* floor at z = 0, normal +z
      <<Q(0, 0, 8), Q(4, 0, 8), Q(0, 4, 8)>>,       \* the same floor at z = 2
      <<Q(-2, -2, 0), Q(5, -2, 0), Q(-2, 5, 0)>>,   \* a wider floor at z = 0
      <<Q(0, 0, 0), Q(2, 0, 0), Q(4, 0, 0)>>,       \* collinear: zero area
      <<Q(2, -4, -4), Q(2, 4, -4), Q(2, 0, 4)>>,    \* wall at x = 0.5, normal +x
      <<Q(0, 0, 3), Q(4, -2, 3), Q(0, 2, 1)>> }     \* slope, normal (1,2,2)/3

\* Origin and direction of the rays constructed.
RayInputs ==
    { <<Q(1, 1, 20), V(0, 0, -1)>>,   \* down onto the inside of the floors
      <<Q(1, 1, 20), V(0, 0, -2)>>,   \* the same, not yet normalized
      <<Q(1, 1, 20), V(0, 0, 1)>>,    \* up, away from everything
      <<Q(1, 1, -12), V(0, 0, 3)>>,   \* up from below the floors
      <<Q(-1, 1, 4), V(0, 0, 1)>>,    \* up from between the floors, off the edge
      <<Q(1, 1, 0), V(0, 0, -1)>>,    \* starts inside the floors at z = 0
      <<Q(1, 1, 0), V(1, 0, 0)>>,     \* inside the plane z = 0, into the wall
      <<Q(2, 0, 20), V(0, 0, -1)>>,   \* down onto an edge of the first floor
      <<Q(0, 0, 20), V(0, 0, -1)>>,   \* down onto a vertex of the first floor
      <<Q(-1, 1, 20), V(0, 0, -1)>>,  \* down beside the last edge of the floor
      <<Q(4, 4, 20), V(0, 0, -1)>>,   \* down beside every floor
      <<Q(1, -2, 4), V(0, 3, -4)>>,   \* oblique, meets z = 0 at (0.25, 0.25)
      <<Q(1, 0, 20), V(0, 0, -1)>>,   \* down onto the slope
      <<Q(1, 1, 20), V(0, 0, 0)>>,    \* zero direction: normalizes to NaN
      <<Q(1, 1, 4 * MaxFinite), V(0, 0, -1)>> }  \* from z = MAX_FLOAT down

\* The planes handed to collide_plane.
PlaneInputs ==
    { xy_aligned(Q(0, 0, 0)),
      xy_aligned(Q(0, 0, 28)),
      xz_aligned(Q(0, 4, 0)),
      yz_aligned(Q(2, 0, 0)),
      Plane(Q(0, 0, 4), V(0, 2, 0), V(2, 0, 0)),       \* normal (0,0,-4)
      Plane(Q(0, 0, 0), V(1, 0, 0), V(2, 0, 0)),       \* parallel vectors
      Plane(Q(0, 0, 0), V(0, 0, 0), V(0, 1, 0)),       \* a zero vector
      from_implicit(Q(0, 0, 0), V(1, 2, 2)),
      from_implicit(Q(0, 0, 4), V(0, 0, 1)) }

\* The scalars that span points of a plane from its two vectors.
ScalarInputs == { F(0), F(1), F(-2), Float(1, 2), MAX_FLOAT }

\* origin + vec1 * a + vec2 * b
SpanPoint(plane, a, b) ==
    VAdd(VAdd(plane.origin, VMul(plane._vec1, a)), VMul(plane._vec2, b))

\* The points tested against a plane: the points its vectors span and some
\* points of the scene.
PointInputs(plane) ==
    { SpanPoint(plane, a, b) : a, b \in ScalarInputs }
        \cup { Q(1, 1, 0), Q(1, 1, 4), Q(0, 4, 0), Q(2, 0, 7), Q(3, 5, 28) }

\* Each plane with each of the points tested against it.
PlanePoints ==
    UNION { { <<plane, vec>> : vec \in PointInputs(plane) } :
            plane \in PlaneInputs }

\* The Triangle objects constructed from TriangleInputs.
Triangles == { Triangle(t[1], t[2], t[3]) : t \in TriangleInputs }

\* The Line objects constructed from RayInputs.
Lines == { Line(r[1], r[2]) : r \in RayInputs }

-----------------------------------------------------------------------------
(* The state machine: a mesh is loaded, rays are built, queries are made *)

VARIABLES
    triangles,  \* the collection of Triangle objects handed to the queries
    ray,        \* the Line the queries are made on
    ret,        \* the last query made on ray and what it returned
    heap,       \* the arrays of the Vector3 objects made so far
    mesh,       \* the Triangle objects in the collection, fields by reference
    built,      \* history: the field values of mesh[i] when it was constructed
    lineObject,   \* the Line object, fields by reference
    planeObject,  \* the Plane object, fields by reference
    done,       \* the last operation on the objects and what it returned
    nops,       \* the number of Vector3 operations made so far
    queries,    \* the collide_triangles call of each thread: its ray, its locals
    undo_history,   \* GenEditor.undo_history: a list of UndoEntry
    redo_history,   \* GenEditor.redo_history: a list of UndoEntry
    undo_history_disabled_count,  \* GenEditor.undo_history_disabled_count
    level,      \* the document: what generate_undo_entry reads of the editor
    event,      \* history: the last handler run and the histories before it
    active      \* history: the undo_history_disabled contexts not yet left

values == <<triangles, ray, ret>>

objects == <<heap, mesh, built, lineObject, planeObject, done, nops, queries>>

editor == <<undo_history, redo_history, undo_history_disabled_count, level,
            event, active>>

vars == <<values, objects, editor>>

NoQuery == [op |-> "none"]

NoObject == [none |-> TRUE]

\* No editor has been constructed.
NoEditor ==
    /\ undo_history = << >>
    /\ redo_history = << >>
    /\ undo_history_disabled_count = 0
    /\ level = NoObject
    /\ event = NoQuery
    /\ active = << >>

\* No object has been made.
NoObjects ==
    /\ heap = << >>
    /\ mesh = << >>
    /\ built = << >>
    /\ lineObject = NoObject
    /\ planeObject = NoObject
    /\ done = NoQuery
    /\ nops = 0
    /\ queries = << >>

Init ==
    /\ triangles = << >>
    /\ ray \in Lines
    /\ ret = NoQuery
    /\ NoObjects
    /\ NoEditor

\* A Triangle is constructed and added to the collection.
AddTriangle ==
    /\ Len(triangles) < MaxTris
    /\ \E tri \in Triangles : triangles' = Append(triangles, tri)
    /\ ret' = NoQuery
    /\ UNCHANGED <<ray, objects, editor>>

\* A new ray is constructed.
NewLine ==
    /\ ray' \in Lines
    /\ ret' = NoQuery
    /\ UNCHANGED <<triangles, objects, editor>>

\* ray.collide(triangles[i])
Collide ==
    /\ \E i \in 1..Len(triangles) :
           ret' = [op |-> "collide", tri |-> i, val |-> collide(ray, triangles[i])]
    /\ UNCHANGED <<triangles, ray, objects, editor>>

\* ray.collide_triangles(triangles)
CollideTriangles ==
    /\ ret' = [op |-> "collide_triangles", val |-> collide_triangles(ray, triangles)]
    /\ UNCHANGED <<triangles, ray, objects, editor>>

\* ray.collide_plane(plane)
CollidePlane ==
    /\ \E plane \in PlaneInputs :
           ret' = [op |-> "collide_plane", plane |-> plane,
                   val |-> collide_plane(ray, plane)]
    /\ UNCHANGED <<triangles, ray, objects, editor>>

\* Rays against a mesh of triangles.
Next ==
    \/ AddTriangle
    \/ NewLine
    \/ Collide
    \/ CollideTriangles

Spec == Init /\ [][Next]_vars

\* plane.point_is_on_plane(vec)
PointIsOnPlane ==
    /\ \E q \in PlanePoints :
           ret' = [op |-> "point_is_on_plane", plane |-> q[1], vec |-> q[2],
                   val |-> point_is_on_plane(q[1], q[2])]
    /\ UNCHANGED <<triangles, ray, objects, editor>>

\* Rays and points against planes.
NextPlane ==
    \/ NewLine
    \/ CollidePlane
    \/ PointIsOnPlane

SpecPlane == Init /\ [][NextPlane]_vars

-----------------------------------------------------------------------------
(* The state machine of the objects: the caller makes vectors, constructs a  *)
(* Triangle, a Line and a Plane from them, normalizes vectors it holds and   *)
(* makes queries.                                                            *)

\* The largest number of Triangle objects in the collection.
MaxMesh == 1

\* The vectors the caller holds: three vertices, an origin and a direction.
CallerVectors ==
    <<V(0, 0, 0), V(2, 0, 0), V(0, 2, 0), Q(1, 1, 20), V(0, 0, -2)>>

\* The vectors handed to the constructors, as references.
TriangleArgs == { <<1, 2, 3>> }

LineArgs == { <<4, 5>>,    \* down onto the triangle
              <<5, 5>>,    \* one vector as origin and as direction
              <<4, 2>> }   \* towards a vertex of the triangle

PlaneArgs == { <<1, 2, 3>>, <<4, 2, 2>> }

\* The vectors the caller normalizes: a vertex and the direction.
NormalizeArgs == { 3, 5 }

\* The largest r in lo..hi with r * r <= n, where lo * lo <= n.
RECURSIVE Root(_, _, _)
Root(n, lo, hi) ==
    IF lo = hi THEN lo
    ELSE LET mid == (lo + hi + 1) \div 2
         IN  IF mid * mid <= n THEN Root(n, mid, hi) ELSE Root(n, lo, mid - 1)

IsSquare(n) == LET r == Root(n, 0, IF n < 46340 THEN n ELSE 46340) IN r * r = n

\* The norm of a is a float of the model: its square has a rational root.
HasRationalNorm(a) ==
    LET s == dot(a, a)
    IN  s[2] = 0 \/ (IsSquare(s[1]) /\ IsSquare(s[2]))

InitObjects ==
    /\ triangles = << >>
    /\ ray = Line(Q(1, 1, 20), V(0, 0, -1))
    /\ ret = NoQuery
    /\ heap = CallerVectors
    /\ mesh = << >>
    /\ built = << >>
    /\ lineObject = NoObject
    /\ planeObject = NoObject
    /\ done = NoQuery
    /\ nops = 0
    /\ queries = << >>
    /\ NoEditor

\* Triangle(p1, p2, p3), added to the collection.
NewTriangleObject ==
    /\ Len(mesh) < MaxMesh
    /\ \E a \in TriangleArgs :
           LET t == Triangle__init__(heap, a[1], a[2], a[3])
           IN  /\ HasRationalNorm(cross(VSub(heap[a[2]], heap[a[1]]),
                                        VSub(heap[a[3]], heap[a[1]])))
               /\ heap' = t.heap
               /\ mesh' = Append(mesh, t.self)
               /\ built' = Append(built, Deref(t.heap, t.self))
               /\ done' = [op |-> "Triangle", before |-> heap]
    /\ UNCHANGED <<editor, values, queries, lineObject, planeObject, nops>>

\* Line(origin, direction)
NewLineObject ==
    /\ \E a \in LineArgs :
           LET l == Line__init__(heap, a[1], a[2])
           IN  /\ HasRationalNorm(heap[a[2]])
               /\ heap' = l.heap
               /\ lineObject' = l.self
               /\ done' = [op |-> "Line", origin |-> a[1],
                           direction |-> a[2], before |-> heap]
    /\ UNCHANGED <<editor, values, queries, mesh, built, planeObject, nops>>

\* Plane(origin, vec1, vec2)
NewPlaneObject ==
    /\ planeObject = NoObject
    /\ \E a \in PlaneArgs :
           LET p == Plane__init__(heap, a[1], a[2], a[3])
           IN  /\ heap' = p.heap
               /\ planeObject' = p.self
               /\ done' = [op |-> "Plane", before |-> heap]
    /\ UNCHANGED <<editor, values, queries, mesh, built, lineObject, nops>>

\* v.normalize() on a vector the caller holds.
NormalizeVector ==
    /\ \E v \in NormalizeArgs :
           /\ HasRationalNorm(heap[v])
           /\ heap' = Vector3_normalize(heap, v).heap
           /\ done' = [op |-> "normalize", self |-> v, before |-> heap]
    /\ UNCHANGED <<editor, values, queries, mesh, built, lineObject, planeObject, nops>>

\* What a query leaves of the heap r.heap: the objects made before it (the
\* objects it made are held by nobody but its result).
Kept(r) == SubSeq(r.heap, 1, Len(heap))

\* lineObject.collide(mesh[i])
CollideObject ==
    /\ lineObject # NoObject
    /\ \E i \in 1..Len(mesh) :
           LET r == Line_collide(heap, lineObject, mesh[i])
           IN  /\ heap' = Kept(r)
               /\ done' = [op |-> "collide", before |-> heap,
                           val |-> IF Raised(r) THEN ZeroDivisionError
                                   ELSE [point |-> r.heap[r.point],
                                         distance |-> r.distance,
                                         isnew |-> r.point > Len(heap)]]
    /\ UNCHANGED <<editor, values, queries, mesh, built, lineObject, planeObject, nops>>

\* lineObject.collide_triangles(mesh)
CollideTrianglesObject ==
    /\ lineObject # NoObject
    /\ LET r == Line_collide_triangles(heap, lineObject, mesh)
       IN  /\ heap' = Kept(r)
           /\ mesh' = IF Raised(r) THEN mesh ELSE r.triangles
           /\ done' = [op |-> "collide_triangles", before |-> heap,
                       mesh |-> mesh,
                       val |-> IF Raised(r) THEN ZeroDivisionError
                               ELSE [place_at |-> r.heap[r.place_at],
                                     isnew |-> r.place_at > Len(heap)]]
    /\ UNCHANGED <<editor, values, queries, built, lineObject, planeObject, nops>>

\* lineObject.collide_plane(planeObject)
CollidePlaneObject ==
    /\ lineObject # NoObject
    /\ planeObject # NoObject
    /\ LET r == Line_collide_plane(heap, lineObject, planeObject)
       IN  /\ heap' = Kept(r)
           /\ done' = [op |-> "collide_plane", before |-> heap,
                       val |-> IF Raised(r) THEN ZeroDivisionError
                               ELSE IF r.hit
                               THEN [hit |-> TRUE, point |-> r.heap[r.point],
                                     distance |-> r.distance,
                                     isnew |-> r.point > Len(heap)]
                               ELSE [hit |-> FALSE]]
    /\ UNCHANGED <<editor, values, queries, mesh, built, lineObject, planeObject, nops>>

\* Constructors, queries and normalize on objects that share vectors.
NextObjects ==
    \/ NewTriangleObject
    \/ NewLineObject
    \/ NewPlaneObject
    \/ NormalizeVector
    \/ CollideObject
    \/ CollideTrianglesObject
    \/ CollidePlaneObject

SpecObjects == InitObjects /\ [][NextObjects]_vars

-----------------------------------------------------------------------------
(* The state machine of the vectors: the operations of Vector3 applied to    *)
(* the vectors made so far, in any order, with any operands.                 *)

\* The largest number of Vector3 operations in a behaviour.
MaxOps == 2

\* The vectors the operations start from.
VectorOperands == <<V(0, 0, -2), V(0, 3, -4)>>

\* The scalars multiplied and divided by.
ScalarArgs == { F(2), F(0) }

InitVectors ==
    /\ triangles = << >>
    /\ ray = Line(Q(1, 1, 20), V(0, 0, -1))
    /\ ret = NoQuery
    /\ heap = VectorOperands
    /\ mesh = << >>
    /\ built = << >>
    /\ lineObject = NoObject
    /\ planeObject = NoObject
    /\ done = NoQuery
    /\ nops = 0
    /\ queries = << >>
    /\ NoEditor

\* The operation op on self (and other: a reference, or 0 when the operation
\* takes no vector) has yielded r.
Operated(op, self, other, r) ==
    /\ nops < MaxOps
    /\ heap' = r.heap
    /\ done' = [op |-> op, self |-> self, other |-> other, ref |-> r.ref,
                before |-> heap]
    /\ nops' = nops + 1
    /\ UNCHANGED <<editor, values, queries, mesh, built, lineObject, planeObject>>

CopyOp ==
    \E self \in DOMAIN heap :
        Operated("copy", self, 0, Vector3_copy(heap, self))

NormalizeOp ==
    \E self \in DOMAIN heap :
        /\ HasRationalNorm(heap[self])
        /\ Operated("normalize", self, 0, Vector3_normalize(heap, self))

NormalizedOp ==
    \E self \in DOMAIN heap :
        /\ HasRationalNorm(heap[self])
        /\ Operated("normalized", self, 0, Vector3_normalized(heap, self))

CrossOp ==
    \E self, other_vec \in DOMAIN heap :
        Operated("cross", self, other_vec,
                 Vector3_cross(heap, self, other_vec))

TrueDivOp ==
    \E self \in DOMAIN heap : \E other \in ScalarArgs :
        Operated("/", self, 0, __truediv__(heap, self, other))

AddOp ==
    \E self, other_vec \in DOMAIN heap :
        Operated("+", self, other_vec, __add__(heap, self, other_vec))

MulOp ==
    \E self \in DOMAIN heap : \E other \in ScalarArgs :
        Operated("*", self, 0, __mul__(heap, self, other))

SubOp ==
    \E self, other_vec \in DOMAIN heap :
        Operated("-", self, other_vec, __sub__(heap, self, other_vec))

IAddOp ==
    \E self, other_vec \in DOMAIN heap :
        Operated("+=", self, other_vec, __iadd__(heap, self, other_vec))

ISubOp ==
    \E self, other_vec \in DOMAIN heap :
        Operated("-=", self, other_vec, __isub__(heap, self, other_vec))

IMulOp ==
    \E self \in DOMAIN heap : \E other \in ScalarArgs :
        Operated("*=", self, 0, __imul__(heap, self, other))

ITrueDivOp ==
    \E self \in DOMAIN heap : \E other \in ScalarArgs :
        Operated("/=", self, 0, __itruediv__(heap, self, other))

NextVectors ==
    \/ CopyOp
    \/ NormalizeOp
    \/ NormalizedOp
    \/ CrossOp
    \/ TrueDivOp
    \/ AddOp
    \/ MulOp
    \/ SubOp
    \/ IAddOp
    \/ ISubOp
    \/ IMulOp
    \/ ITrueDivOp

SpecVectors == InitVectors /\ [][NextVectors]_vars

-----------------------------------------------------------------------------
(* The state machine of concurrent queries: each thread calls               *)
(* collide_triangles on its own Line against one collection.  A step of a    *)
(* thread is one pass of the loop body; the objects only the thread holds    *)
(* (its place_at) are kept in its locals, the heap holds what is shared.     *)

\* The number of threads.
NumThreads == 2

Threads == 1..NumThreads

\* The vertices of the two triangles of the collection: a floor at z = 0 and
\* the same floor at z = 1.
SceneVectors ==
    <<V(0, 0, 0), V(2, 0, 0), V(0, 2, 0), V(0, 0, 1), V(2, 0, 1), V(0, 2, 1)>>

\* Origin and direction of the rays the threads construct.
ThreadRayInputs ==
    { <<Q(1, 1, 20), V(0, 0, -2)>>,   \* down: the floor at z = 1 is nearer
      <<Q(1, 1, -12), V(0, 0, 3)>>,   \* up: the floor at z = 0 is nearer
      <<Q(12, 12, 20), V(0, 0, -1)>> } \* down beside the floors

\* The vectors of the rays rs[1..n], origin then direction.
RECURSIVE RayVectors(_, _)
RayVectors(rs, n) ==
    IF n = 0 THEN << >>
    ELSE RayVectors(rs, n - 1) \o <<rs[n][1], rs[n][2]>>

\* The references of the origin and of the direction of the ray of thread t.
OriginOf(t) == Len(SceneVectors) + 2 * t - 1

DirectionOf(t) == Len(SceneVectors) + 2 * t

\* The heap after Line(origin, direction) was constructed for threads 1..n.
RECURSIVE LinesBuilt(_, _)
LinesBuilt(h, n) ==
    IF n = 0 THEN h
    ELSE Line__init__(LinesBuilt(h, n - 1), OriginOf(n), DirectionOf(n)).heap

\* The heap and the collection after the rays rs and the two triangles were
\* constructed.
Scene(rs) ==
    LET vectors == SceneVectors \o RayVectors(rs, NumThreads)
        lines   == LinesBuilt(vectors, NumThreads)
        first   == Triangle__init__(lines, 1, 2, 3)
        second  == Triangle__init__(first.heap, 4, 5, 6)
    IN  [heap |-> second.heap, mesh |-> <<first.self, second.self>>]

Scenes == { Scene(rs) : rs \in [Threads -> ThreadRayInputs] }

\* The Line of thread t.
LineOf(t) == [origin |-> OriginOf(t), direction |-> DirectionOf(t)]

InitThreads ==
    /\ triangles = << >>
    /\ ray = Line(Q(1, 1, 20), V(0, 0, -1))
    /\ ret = NoQuery
    /\ \E scene \in Scenes :
           /\ heap = scene.heap
           /\ mesh = scene.mesh
           /\ built = [i \in 1..Len(scene.mesh) |-> Deref(scene.heap, scene.mesh[i])]
           /\ done = [op |-> "threads", before |-> scene.heap,
                      mesh |-> scene.mesh]
    /\ lineObject = NoObject
    /\ planeObject = NoObject
    /\ nops = 0
    /\ queries = [t \in Threads |-> [pc |-> "idle", overlapped |-> FALSE]]
    /\ NoEditor

\* Another thread than t is inside collide_triangles.
OthersRunning(t) == \E u \in Threads \ {t} : queries[u].pc = "loop"

\* Thread t enters collide_triangles: best_distance and place_at are set.
Begin(t) ==
    /\ queries[t].pc = "idle"
    /\ LET start == ScanBegin(heap)
       IN  /\ heap' = Kept(start)
           /\ queries' = [queries EXCEPT ![t] =
                  [pc |-> "loop", k |-> 0, calls |-> << >>,
                   best_distance |-> start.best_distance,
                   place_at |-> start.heap[start.place_at],
                   overlapped |-> OthersRunning(t)]]
    /\ UNCHANGED <<editor, values, mesh, built, lineObject, planeObject, done, nops>>

\* Mutant: the loop is left at the first hit.
Step_EarlyExit(t) ==
    /\ queries[t].pc = "loop"
    /\ queries[t].k < Len(mesh)
    /\ LET q    == queries[t]
           own  == New(heap, q.place_at)
           prev == [heap |-> own.heap, best_distance |-> q.best_distance,
                    place_at |-> own.ref]
           r    == ScanStep(own.heap, LineOf(t), mesh[q.k + 1], prev)
       IN  /\ heap' = Kept(r)
           /\ queries' = [queries EXCEPT ![t] =
                  IF Raised(r) THEN [pc |-> "raised", overlapped |-> q.overlapped]
                  ELSE [q EXCEPT !.k = IF r.best_distance # q.best_distance
                                      THEN Len(mesh) ELSE q.k + 1,
                                 !.calls = Append(q.calls, q.k + 1),
                                 !.best_distance = r.best_distance,
                                 !.place_at = r.heap[r.place_at],
                                 !.overlapped = q.overlapped \/ OthersRunning(t)]]
    /\ UNCHANGED <<editor, values, mesh, built, lineObject, planeObject, done, nops>>

\* Thread t runs the loop body on the next triangle of the collection.  `calls`
\* is the history of the triangles handed to collide, by their index.
Step(t) ==
    /\ queries[t].pc = "loop"
    /\ queries[t].k < Len(mesh)
    /\ LET q    == queries[t]
           own  == New(heap, q.place_at)
           prev == [heap |-> own.heap, best_distance |-> q.best_distance,
                    place_at |-> own.ref]
           r    == ScanStep(own.heap, LineOf(t), mesh[q.k + 1], prev)
       IN  /\ heap' = Kept(r)
           /\ queries' = [queries EXCEPT ![t] =
                  IF Raised(r) THEN [pc |-> "raised", overlapped |-> q.overlapped]
                  ELSE [q EXCEPT !.k = q.k + 1,
                                 !.calls = Append(q.calls, q.k + 1),
                                 !.best_distance = r.best_distance,
                                 !.place_at = r.heap[r.place_at],
                                 !.overlapped = q.overlapped \/ OthersRunning(t)]]
    /\ UNCHANGED <<editor, values, mesh, built, lineObject, planeObject, done, nops>>

\* Thread t leaves the loop and returns place_at.
Return(t) ==
    /\ queries[t].pc = "loop"
    /\ queries[t].k = Len(mesh)
    /\ queries' = [queries EXCEPT ![t] =
           [pc |-> "returned", val |-> queries[t].place_at,
            calls |-> queries[t].calls,
            overlapped |-> queries[t].overlapped]]
    /\ UNCHANGED <<editor, values, heap, mesh, built, lineObject, planeObject, done,
                   nops>>

NextThreads ==
    \E t \in Threads :
        \/ Begin(t)
        \/ Step(t)
        \/ Return(t)

SpecThreads == InitThreads /\ [][NextThreads]_vars

\* The loop of thread t has a pass to make.
InLoop(t) == queries[t].pc = "loop" /\ queries[t].k < Len(mesh)

\* A thread inside collide_triangles is scheduled again and again: it is not
\* stopped in the middle of the call for ever.  The first disjunction is
\* WF_vars(Step(t)), with ENABLED <<Step(t)>>_vars written out as InLoop(t).
Scheduled ==
    \A t \in Threads :
        /\ []<>(~InLoop(t)) \/ []<><<Step(t)>>_vars
        /\ WF_vars(Return(t))

SpecThreadsFair == SpecThreads /\ Scheduled

-----------------------------------------------------------------------------
(* The undo history of the editor (src/mkdd_editor.py, GenEditor): the       *)
(* document is edited, the application notifies the editor that the          *)
(* document has potentially changed, the user triggers undo and redo, and    *)
(* handlers run inside undo_history_disabled() contexts.                     *)

\* The largest number of entries undo_history holds.
MaxHistory == 3

\* The largest number of undo_history_disabled contexts active at a time.
MaxDepth == 1

\* hash() of a number: a small number hashes to itself, but -1 is reserved and
\* hashes to -2.
PyHash(x) == IF x = -1 THEN -2 ELSE x

\* hash() of a tuple of numbers: it is made of the hashes of the elements.
TupleHash(t) == [i \in DOMAIN t |-> PyHash(t[i])]

\* UndoEntry(bol_document, enemy_path_data, minimap_data).  The hash of the
\* bytes and of the enemy paths is taken to tell any two of them apart.
UndoEntry(bol_document, enemy_path_data, minimap_data) ==
    LET bol_hash == <<bol_document, enemy_path_data>>
    IN  [bol_document    |-> bol_document,
         enemy_path_data |-> enemy_path_data,
         minimap_data    |-> minimap_data,
         bol_hash        |-> bol_hash,
         hash            |-> <<bol_hash, TupleHash(minimap_data)>>]

\* UndoEntry.__eq__: the hashes are compared, not the contents.
UndoEntry__eq__(self, other) == self.hash = other.hash

\* The bytes level_file.to_bytes() gives.
BolDocuments == {"bol1", "bol2"}

\* The first coordinate of the first corner of the minimap.
MinimapCorners == {0, -1, -2}

\* The documents the user makes: the bytes of the level, the (empty, id) pairs
\* of its enemy paths, and the corners and the orientation of the minimap.
Levels ==
    { [bol_document |-> "bol1", enemy_path_data |-> <<<<FALSE, 0>>>>,
       minimap_data |-> <<x, 0, 0, 8, 0, 8, 0>>] : x \in MinimapCorners }
    \cup { [bol_document |-> "bol2", enemy_path_data |-> <<<<FALSE, 0>>>>,
            minimap_data |-> <<0, 0, 0, 8, 0, 8, 0>>] }

\* generate_undo_entry() on the document lv.
generate_undo_entry(lv) ==
    UndoEntry(lv.bol_document, lv.enemy_path_data, lv.minimap_data)

\* The documents load_top_undo_entry() may leave for the entry on top of the
\* history u: the enemy paths and the minimap are those of the entry; the level
\* is BOL.from_bytes(undo_entry.bol_document), and what that serializes to
\* again is decided outside these sources, so it is any level.
load_top_undo_entry(u) ==
    IF u = << >> THEN {level}
    ELSE LET undo_entry == u[Len(u)]
         IN  { [bol_document    |-> b,
                enemy_path_data |-> undo_entry.enemy_path_data,
                minimap_data    |-> undo_entry.minimap_data] :
                   b \in BolDocuments }

\* The last handler run: its name, and the histories and the counter it found.
Handled(op) ==
    [op |-> op, undo |-> undo_history, redo |-> redo_history,
     count |-> undo_history_disabled_count]

\* The same, with the name of the handler that ran before it.
HandledAfter(op) ==
    [op |-> op, prev |-> event.op, undo |-> undo_history,
     redo |-> redo_history, count |-> undo_history_disabled_count]

\* GenEditor(): the history starts with the entry of the new document.
InitEditor ==
    /\ triangles = << >>
    /\ ray = Line(Q(1, 1, 20), V(0, 0, -1))
    /\ ret = NoQuery
    /\ NoObjects
    /\ level \in Levels
    /\ undo_history = <<generate_undo_entry(level)>>
    /\ redo_history = << >>
    /\ undo_history_disabled_count = 0
    /\ event = NoQuery
    /\ active = << >>

\* The user changes the document.
Edit ==
    /\ level' \in Levels \ {level}
    /\ event' = Handled("edit")
    /\ UNCHANGED <<undo_history, redo_history, undo_history_disabled_count,
                   active, values, objects>>

\* Mutant: the early out on the disabled counter is missing.
on_document_potentially_changed_AlwaysOn(u, r, count, lv) ==
    LET undo_entry == generate_undo_entry(lv)
    IN  IF ~UndoEntry__eq__(u[Len(u)], undo_entry)
        THEN [undo |-> Append(u, undo_entry), redo |-> << >>]
        ELSE [undo |-> u, redo |-> r]

\* Mutant: the entry is appended without comparing it with the top.
on_document_potentially_changed_AlwaysAppends(u, r, count, lv) ==
    IF count # 0 THEN [undo |-> u, redo |-> r]
    ELSE [undo |-> Append(u, generate_undo_entry(lv)), redo |-> << >>]

\* on_document_potentially_changed() with the histories u and r, the counter
\* count and the document lv: the histories it leaves.
on_document_potentially_changed(u, r, count, lv) ==
    IF count # 0 THEN [undo |-> u, redo |-> r]
    ELSE LET undo_entry == generate_undo_entry(lv)
         IN  IF ~UndoEntry__eq__(u[Len(u)], undo_entry)
             THEN [undo |-> Append(u, undo_entry), redo |-> << >>]
             ELSE [undo |-> u, redo |-> r]

\* The histories become what on_document_potentially_changed leaves.
Checked(count, lv) ==
    LET r == on_document_potentially_changed(undo_history, redo_history,
                                              count, lv)
    IN  /\ Len(r.undo) <= MaxHistory
        /\ undo_history' = r.undo
        /\ redo_history' = r.redo

\* Mutant: the last entry is popped too.
UndoMoves_Last(u) == Len(u) > 0

\* if len(self.undo_history) > 1
UndoMoves(u) == Len(u) > 1

\* Mutant: the undone entry is put at the end of redo_history.
Undone_AtEnd(u, r) ==
    [undo |-> SubSeq(u, 1, Len(u) - 1), redo |-> Append(r, u[Len(u)])]

\* self.redo_history.insert(0, self.undo_history.pop())
Undone(u, r) ==
    [undo |-> SubSeq(u, 1, Len(u) - 1), redo |-> <<u[Len(u)]>> \o r]

\* self.undo_history.append(self.redo_history.pop(0))
Redone(u, r) ==
    [undo |-> Append(u, r[1]), redo |-> SubSeq(r, 2, Len(r))]

\* The application delivers document_potentially_changed.
DocumentPotentiallyChanged ==
    /\ Checked(undo_history_disabled_count, level)
    /\ event' = Handled("changed")
    /\ UNCHANGED <<undo_history_disabled_count, level, active, values, objects>>

\* setup_bol_file(): a level file is loaded into the editor.
SetupBolFile ==
    /\ \E b \in BolDocuments :
           /\ level' = [level EXCEPT !.bol_document = b]
           /\ Checked(undo_history_disabled_count, level')
    /\ event' = Handled("setup_bol_file")
    /\ UNCHANGED <<undo_history_disabled_count, active, values, objects>>

\* on_undo_action_triggered()
Undo ==
    /\ IF UndoMoves(undo_history)
       THEN LET moved == Undone(undo_history, redo_history)
            IN  /\ undo_history' = moved.undo
                /\ redo_history' = moved.redo
                /\ level' \in load_top_undo_entry(moved.undo)
       ELSE UNCHANGED <<undo_history, redo_history, level>>
    /\ event' = Handled("undo")
    /\ UNCHANGED <<undo_history_disabled_count, active, values, objects>>

\* on_redo_action_triggered()
Redo ==
    /\ IF redo_history # << >>
       THEN LET moved == Redone(undo_history, redo_history)
            IN  /\ undo_history' = moved.undo
                /\ redo_history' = moved.redo
                /\ level' \in load_top_undo_entry(moved.undo)
       ELSE UNCHANGED <<undo_history, redo_history, level>>
    /\ event' = HandledAfter("redo")
    /\ UNCHANGED <<undo_history_disabled_count, active, values, objects>>

\* with self.undo_history_disabled(): the context is entered.  `active` keeps
\* the handler of each context not yet left.
EnterDisabled ==
    /\ Len(active) < MaxDepth
    /\ undo_history_disabled_count' = undo_history_disabled_count + 1
    /\ active' = Append(active, "minimap_generator_action")
    /\ event' = Handled("enter")
    /\ UNCHANGED <<undo_history, redo_history, level, values, objects>>

\* The body of the innermost context ends: the counter is restored and the
\* document is checked.
ExitDisabled ==
    /\ active # << >>
    /\ undo_history_disabled_count' = undo_history_disabled_count - 1
    /\ active' = SubSeq(active, 1, Len(active) - 1)
    /\ Checked(undo_history_disabled_count', level)
    /\ event' = HandledAfter("exit")
    /\ UNCHANGED <<level, values, objects>>

\* The body of the innermost context raises: the counter is restored and the
\* exception leaves the context, the document is not checked.
RaiseDisabled ==
    /\ active # << >>
    /\ undo_history_disabled_count' = undo_history_disabled_count - 1
    /\ active' = SubSeq(active, 1, Len(active) - 1)
    /\ event' = Handled("raise")
    /\ UNCHANGED <<undo_history, redo_history, level, values, objects>>

NextEditor ==
    \/ Edit
    \/ DocumentPotentiallyChanged
    \/ SetupBolFile
    \/ Undo
    \/ Redo
    \/ EnterDisabled
    \/ ExitDisabled
    \/ RaiseDisabled

SpecEditor == InitEditor /\ [][NextEditor]_vars

-----------------------------------------------------------------------------
(* What the claims speak of, computed from the vertices and the ray *)

Tri(i) == triangles[i]

NaNVector == <<NaN, NaN, NaN>>

\* The distance collide reports for triangles[i].
Dist(i) == collide(ray, Tri(i)).distance

\* The triangles of the collection that collide reports as hit.
Hits == { i \in 1..Len(triangles) : FGt(Dist(i), F(0)) }

\* The hits no other hit is nearer than.
NearestHits == { i \in Hits : \A j \in Hits : FLe(Dist(i), Dist(j)) }

\* The signed distance along the ray to the plane of tri.
PlaneDistance(tri) ==
    FDiv(dot(VSub(tri.origin, ray.origin), tri.normal),
         dot(tri.normal, ray.direction))

\* Where the ray pierces the plane of tri.
PiercePoint(tri) == VAdd(ray.origin, VMul(ray.direction, PlaneDistance(tri)))

\* The cross product of the edges at the first vertex, not normalized.
RawNormal(tri) == cross(VSub(tri.p2, tri.origin), VSub(tri.p3, tri.origin))

ZeroArea(tri) == is_zero(RawNormal(tri))

InPlane(tri, P) == FEq(dot(VSub(P, tri.origin), RawNormal(tri)), F(0))

\* The barycentric coordinates of P on the edges p1->p2 and p1->p3.
BaryU(tri, P) ==
    LET n == RawNormal(tri)
    IN  FDiv(dot(cross(VSub(P, tri.origin), VSub(tri.p3, tri.origin)), n),
             dot(n, n))

BaryV(tri, P) ==
    LET n == RawNormal(tri)
    IN  FDiv(dot(cross(VSub(tri.p2, tri.origin), VSub(P, tri.origin)), n),
             dot(n, n))

StrictlyInside(tri, P) ==
    LET u == BaryU(tri, P)
        v == BaryV(tri, P)
    IN  FGt(u, F(0)) /\ FGt(v, F(0)) /\ FLt(FAdd(u, v), F(1))

StrictlyOutside(tri, P) ==
    LET u == BaryU(tri, P)
        v == BaryV(tri, P)
    IN  FLt(u, F(0)) \/ FLt(v, F(0)) \/ FGt(FAdd(u, v), F(1))

\* On an edge or on a vertex.
OnBoundary(tri, P) ==
    LET u == BaryU(tri, P)
        v == BaryV(tri, P)
    IN  /\ FGe(u, F(0)) /\ FGe(v, F(0)) /\ FLe(FAdd(u, v), F(1))
        /\ (FEq(u, F(0)) \/ FEq(v, F(0)) \/ FEq(FAdd(u, v), F(1)))

\* The ray and the triangle of the spec's ray-triangle example.
ExampleRay == Line(Q(1, 1, 20), V(0, 0, -1))

ExampleTriangle == Triangle(V(0, 0, 0), V(1, 0, 0), V(0, 1, 0))

-----------------------------------------------------------------------------
(* The claims *)

\* C1: collide_triangles returns the intersection point of the triangle whose
\* hit has the smallest positive distance among the triangles collide reports
\* as hit.
C1_NearestHitReturned ==
    (ret.op = "collide_triangles" /\ Hits # {}) =>
        /\ ~Raised(ret.val)
        /\ \E i \in NearestHits : ret.val.place_at = collide(ray, Tri(i)).point

\* C2: when collide reports no triangle of the collection as hit (the empty
\* collection included), collide_triangles returns the all-NaN vector.
C2_NoHitIsNaN ==
    (ret.op = "collide_triangles" /\ Hits = {}) =>
        /\ ~Raised(ret.val)
        /\ ret.val.place_at = NaNVector

C2_Witness ==
    /\ ret.op = "collide_triangles"
    /\ Len(triangles) >= 1
    /\ \E i \in 1..Len(triangles) : ~ZeroArea(Tri(i))
    /\ Hits = {}
    /\ ret.val.place_at = NaNVector

\* C3 as stated: collide returns a distance strictly greater than 0 or exactly
\* -1, and the zero vector with -1.
C3_PositiveOrMinusOne ==
    ret.op = "collide" =>
        /\ ~Raised(ret.val)
        /\ FGt(ret.val.distance, F(0)) \/ ret.val.distance = F(-1)
        /\ ret.val.distance = F(-1) => ret.val.point = V(0, 0, 0)

\* C3 as amended: collide returns a distance greater than or equal to 0 (0 when
\* the ray starts inside the triangle) or exactly -1, and the zero vector
\* with -1.
C3_NonNegativeOrMinusOne ==
    ret.op = "collide" =>
        /\ ~Raised(ret.val)
        /\ FGe(ret.val.distance, F(0)) \/ ret.val.distance = F(-1)
        /\ ret.val.distance = F(-1) => ret.val.point = V(0, 0, 0)

C3_Witness ==
    /\ ret.op = "collide"
    /\ ret.val.distance = F(0)
    /\ ret.val.point = ray.origin
    /\ StrictlyInside(Tri(ret.tri), ray.origin)

\* C4: when collide reports a hit, the point is origin + direction * distance,
\* it lies in the plane of the triangle strictly inside its edges; the ray
\* from (0.25,0.25,5) along (0,0,-1) hits (0,0,0),(1,0,0),(0,1,0) at
\* (0.25,0.25,0) with distance 5.
C4_HitPoint ==
    ret.op = "collide" =>
        /\ FGt(ret.val.distance, F(0)) =>
              /\ ret.val.point =
                     VAdd(ray.origin, VMul(ray.direction, ret.val.distance))
              /\ InPlane(Tri(ret.tri), ret.val.point)
              /\ StrictlyInside(Tri(ret.tri), ret.val.point)
        /\ (ray = ExampleRay /\ Tri(ret.tri) = ExampleTriangle) =>
              ret.val = [point |-> Q(1, 1, 0), distance |-> F(5)]

C4_Witness ==
    /\ ret.op = "collide"
    /\ ray = ExampleRay
    /\ Tri(ret.tri) = ExampleTriangle
    /\ ret.val.distance = F(5)

\* C5: a triangle whose normal is perpendicular to the ray direction gives the
\* miss result, the zero vector and -1, and no division by zero is made.
C5_PerpendicularMisses ==
    (ret.op = "collide"
        /\ FEq(dot(Tri(ret.tri).normal, ray.direction), F(0))) =>
        ret.val = NoCollision

C5_Witness ==
    /\ ret.op = "collide"
    /\ ~ZeroArea(Tri(ret.tri))
    /\ FEq(dot(Tri(ret.tri).normal, ray.direction), F(0))
    /\ ret.val = NoCollision

\* C6: a ray whose signed plane distance is negative, or that pierces the plane
\* of the triangle outside its edges, gets distance -1.
C6_BehindOrOutsideMisses ==
    ret.op = "collide" =>
        LET tri == Tri(ret.tri)
            d   == PlaneDistance(tri)
        IN  (FLt(d, F(0)) \/ (FGe(d, F(0)) /\ StrictlyOutside(tri, PiercePoint(tri))))
                => ret.val = NoCollision

C6_Witness ==
    /\ ret.op = "collide"
    /\ Len(triangles) = 2
    /\ ret.tri = 2
    /\ FLt(PlaneDistance(Tri(1)), F(0))
    /\ StrictlyInside(Tri(1), PiercePoint(Tri(1)))
    /\ collide(ray, Tri(1)) = NoCollision
    /\ FGt(PlaneDistance(Tri(2)), F(0))
    /\ StrictlyOutside(Tri(2), PiercePoint(Tri(2)))
    /\ ret.val = NoCollision

\* C7: a ray that meets the plane of the triangle exactly on an edge or on a
\* vertex is classified as outside: distance -1.
C7_BoundaryMisses ==
    ret.op = "collide" =>
        LET tri == Tri(ret.tri)
        IN  (FGe(PlaneDistance(tri), F(0)) /\ OnBoundary(tri, PiercePoint(tri)))
                => ret.val = NoCollision

C7_Witness ==
    /\ ret.op = "collide"
    /\ FGt(PlaneDistance(Tri(ret.tri)), F(0))
    /\ OnBoundary(Tri(ret.tri), PiercePoint(Tri(ret.tri)))
    /\ ret.val = NoCollision

\* C8: when several triangles are hit at the same smallest positive distance,
\* collide_triangles keeps the hit of the first of them in scan order; a later
\* triangle replaces the current best only if its distance is strictly smaller.
C8_TieKeepsFirst ==
    ret.op = "collide_triangles" =>
        /\ Cardinality(NearestHits) >= 2 =>
              /\ ret.val.winner \in NearestHits
              /\ \A i \in NearestHits : ret.val.winner <= i
        /\ \A k \in 1..Len(triangles) :
              LET before == Scan(ray, triangles, k - 1)
                  after  == Scan(ray, triangles, k)
              IN  after.winner # before.winner =>
                      /\ after.winner = k
                      /\ FLt(Dist(k), before.best_distance)

\* C9: collide_plane returns (origin + direction*d, d), with
\* d = ((plane.origin - origin) . normal) / (normal . direction), exactly when
\* the direction is not parallel to the plane and d >= 0; otherwise it reports
\* no intersection.
C9_PlaneHit ==
    ret.op = "collide_plane" =>
        LET plane    == ret.plane
            parallel == FEq(dot(plane.normal, ray.direction), F(0))
            d        == FDiv(dot(VSub(plane.origin, ray.origin), plane.normal),
                             dot(plane.normal, ray.direction))
        IN  IF ~parallel /\ FGe(d, F(0))
            THEN ret.val = [hit |-> TRUE,
                            point |-> VAdd(ray.origin, VMul(ray.direction, d)),
                            distance |-> d]
            ELSE ret.val = [hit |-> FALSE]

C9_Witness ==
    /\ ret.op = "collide_plane"
    /\ ret.val.hit
    /\ ret.val.distance = F(0)
    /\ ret.val.point = ray.origin

\* C10: a triangle of zero area has the zero vector as its normal and is never
\* hit: collide gives it distance -1 for every ray, and it never supplies the
\* result of collide_triangles.
C10_ZeroAreaNeverHit ==
    /\ \A i \in 1..Len(triangles) :
           ZeroArea(Tri(i)) => Tri(i).normal = V(0, 0, 0)
    /\ (ret.op = "collide" /\ ZeroArea(Tri(ret.tri))) => ret.val = NoCollision
    /\ ret.op = "collide_triangles" =>
           /\ ~Raised(ret.val)
           /\ ret.val.winner # 0 => ~ZeroArea(Tri(ret.val.winner))

C10_Witness ==
    /\ ret.op = "collide"
    /\ ZeroArea(Tri(ret.tri))
    /\ ray = ExampleRay
    /\ Tri(ret.tri).normal = V(0, 0, 0)
    /\ ret.val = NoCollision

-----------------------------------------------------------------------------
(* C11: a plane whose normal is the zero vector *)

\* C11: collide_plane on a plane whose spanning vectors are parallel or zero,
\* so that its normal is the zero vector, reports no intersection for every
\* ray and raises nothing.
C11_ZeroNormalPlaneMisses ==
    ret.op = "collide_plane" /\ is_zero(ret.plane.normal)
        => ret.val = [hit |-> FALSE]

\* A ray of unit direction has been sent at a plane of zero normal.
C11_Witness ==
    /\ ret.op = "collide_plane"
    /\ is_zero(ret.plane.normal)
    /\ FEq(norm(ray.direction), F(1))
    /\ ret.val = [hit |-> FALSE]

-----------------------------------------------------------------------------
(* C16: what a Triangle holds after construction *)

\* The edges and the normal of tri are the ones its vertices determine.
Precomputed(tri) ==
    /\ tri.p1_to_p2 = VSub(tri.p2, tri.origin)
    /\ tri.p1_to_p3 = VSub(tri.p3, tri.origin)
    /\ tri.p2_to_p3 = VSub(tri.p3, tri.p2)
    /\ tri.p3_to_p1 = VSub(tri.origin, tri.p3)
    /\ IF ZeroArea(tri)
       THEN is_zero(tri.normal)
       ELSE /\ FEq(norm(tri.normal), F(1))
            /\ is_zero(cross(tri.normal, RawNormal(tri)))
            /\ FGt(dot(tri.normal, RawNormal(tri)), F(0))

\* C16: a constructed Triangle holds the edges p2 - p1, p3 - p1, p3 - p2 and
\* p1 - p3, and a normal that is the cross product (p2 - p1) x (p3 - p1)
\* scaled to unit length when that product is not zero and the zero vector
\* when it is; for the vertices (0,0,0), (1,0,0), (0,1,0) the normal is
\* (0,0,1).
C16_TrianglePrecomputed ==
    /\ \A i \in 1..Len(triangles) : Precomputed(Tri(i))
    /\ \A i \in 1..Len(triangles) :
           (Tri(i).origin = V(0, 0, 0) /\ Tri(i).p2 = V(1, 0, 0)
                                       /\ Tri(i).p3 = V(0, 1, 0))
               => Tri(i).normal = V(0, 0, 1)

\* The mesh holds the example triangle and a triangle of zero area.
C16_Witness ==
    /\ \E i \in 1..Len(triangles) : Tri(i) = ExampleTriangle
    /\ \E i \in 1..Len(triangles) : ZeroArea(Tri(i))

-----------------------------------------------------------------------------
(* C18, C19, C20: planes *)

\* The point tested is one the two vectors of the plane span from its origin.
Spanned ==
    \E a, b \in ScalarInputs : ret.vec = SpanPoint(ret.plane, a, b)

\* What point_is_on_plane compares with zero.
OffPlane == dot(VSub(ret.vec, ret.plane.origin), ret.plane.normal)

\* C18 as stated: every point origin + vec1 * a + vec2 * b of the plane built
\* from origin, vec1, vec2 satisfies point_is_on_plane.
C18_SpannedPointOnPlane ==
    ret.op = "point_is_on_plane" /\ Spanned => ret.val

\* C18: a point origin + vec1 * a + vec2 * b satisfies point_is_on_plane
\* whenever the float computation of (point - origin) . normal stays finite
\* (and is not rounded); when a product overflows the test is false.
C18_SpannedPointOnPlaneWhenFinite ==
    ret.op = "point_is_on_plane" /\ Spanned /\ IsFinite(OffPlane) => ret.val

\* A point spanned with both scalars non-zero on a plane whose normal is not
\* zero and whose origin is not on the normal's plane through (0,0,0).
C18_Witness ==
    /\ ret.op = "point_is_on_plane"
    /\ \E a, b \in ScalarInputs \ {F(0)} :
           ret.vec = SpanPoint(ret.plane, a, b)
    /\ ~is_zero(ret.plane.normal)
    /\ ~FEq(dot(ret.plane.origin, ret.plane.normal), F(0))
    /\ ret.vec # ret.plane.origin
    /\ ret.val

FromVectors ==
    /\ ret.op \in {"collide_plane", "point_is_on_plane"}
    /\ ret.plane = Plane(ret.plane.origin, ret.plane._vec1, ret.plane._vec2)

\* The two vectors are parallel or one of them is zero: equality in the
\* Cauchy-Schwarz inequality.
SpansNothing(plane) ==
    FEq(FMul(dot(plane._vec1, plane._vec1), dot(plane._vec2, plane._vec2)),
        FMul(dot(plane._vec1, plane._vec2), dot(plane._vec1, plane._vec2)))

\* C20 as stated: a Plane constructed from an origin and two vectors has a
\* normal of unit length, or the zero vector when the vectors are parallel or
\* zero.
C20_UnitNormal ==
    FromVectors =>
        IF SpansNothing(ret.plane)
        THEN is_zero(ret.plane.normal)
        ELSE FEq(norm(ret.plane.normal), F(1))

\* C20: the normal of a Plane constructed from an origin and two vectors is
\* their cross product as it is, not scaled: orthogonal to both, of squared
\* length |vec1|^2 |vec2|^2 - (vec1 . vec2)^2, the zero vector exactly when
\* the vectors are parallel or zero, and of unit length for the axis-aligned
\* planes.
C20_NormalIsCrossProduct ==
    FromVectors =>
        LET plane == ret.plane
            n     == plane.normal
        IN  /\ FEq(dot(n, plane._vec1), F(0))
            /\ FEq(dot(n, plane._vec2), F(0))
            /\ FEq(dot(n, n),
                   FSub(FMul(dot(plane._vec1, plane._vec1),
                             dot(plane._vec2, plane._vec2)),
                        FMul(dot(plane._vec1, plane._vec2),
                             dot(plane._vec1, plane._vec2))))
            /\ SpansNothing(plane) <=> is_zero(n)
            /\ plane \in {xy_aligned(plane.origin), xz_aligned(plane.origin),
                          yz_aligned(plane.origin)}
                   => FEq(norm(n), F(1))

\* A plane built from two orthogonal vectors of length 2: its normal has
\* length 4.
C20_Witness ==
    /\ FromVectors
    /\ ~SpansNothing(ret.plane)
    /\ FEq(norm(ret.plane.normal), F(4))

-----------------------------------------------------------------------------
(* C12, C14, C15: what the operations change of the objects *)

\* C12: collide, collide_triangles and collide_plane change nothing they are
\* given: every Vector3 that a field of a Triangle, of the Plane or of the ray
\* refers to holds the array it held before the query, and the collection
\* holds the same Triangle objects.
C12_QueriesChangeNothing ==
    done.op \in {"collide", "collide_triangles", "collide_plane"} =>
        /\ heap = done.before
        /\ \A i \in 1..Len(mesh) :
               Deref(heap, mesh[i]) = Deref(done.before, mesh[i])
        /\ Deref(heap, lineObject) = Deref(done.before, lineObject)
        /\ planeObject # NoObject =>
               Deref(heap, planeObject) = Deref(done.before, planeObject)
        /\ done.op = "collide_triangles" => mesh = done.mesh

\* collide_triangles has returned the point of a hit, an object made by the
\* query, while a Plane exists.
C12_Witness ==
    /\ done.op = "collide_triangles"
    /\ ~Raised(done.val)
    /\ ~IsNaN(done.val.place_at[1])
    /\ done.val.isnew
    /\ Len(mesh) > 0
    /\ planeObject # NoObject

\* The last operation constructed a Line from a direction that is not zero.
LineConstructed ==
    /\ done.op = "Line"
    /\ ~is_zero(done.before[done.direction])

\* After Line(origin, direction): the fields are the caller's two objects and
\* the direction object holds its former array scaled to unit length.
DirectionNormalizedInPlace ==
    /\ lineObject.origin = done.origin
    /\ lineObject.direction = done.direction
    /\ FEq(norm(heap[done.direction]), F(1))
    /\ heap[done.direction]
           = VDiv(done.before[done.direction], norm(done.before[done.direction]))
    /\ \A v \in 1..Len(heap) :
           v # done.direction => heap[v] = done.before[v]

\* C14 as stated: the direction is normalized in place and the origin is
\* stored unchanged.
C14_LineNormalizesInPlace ==
    LineConstructed =>
        /\ lineObject.direction = done.direction
        /\ FEq(norm(heap[done.direction]), F(1))
        /\ lineObject.origin = done.origin
        /\ heap[done.origin] = done.before[done.origin]

\* C14: constructing a Line from an origin and a direction that is not zero
\* normalizes the caller's direction object in place: ray.direction is that
\* object, scaled to unit length; ray.origin is the caller's origin object,
\* and it is unchanged when it is another object than the direction.
C14_LineNormalizesInPlaceUnlessShared ==
    LineConstructed =>
        /\ DirectionNormalizedInPlace
        /\ done.origin # done.direction
               => heap[done.origin] = done.before[done.origin]

\* A Line has been constructed from an origin and another vector of length 2.
C14_Witness ==
    /\ LineConstructed
    /\ done.origin # done.direction
    /\ FEq(norm(done.before[done.direction]), F(2))
    /\ FEq(norm(heap[lineObject.direction]), F(1))

\* C15: the vertices, the four edges and the normal of a Triangle keep the
\* values they had at construction under every later operation.
C15_TriangleImmutable ==
    \A i \in 1..Len(mesh) : Deref(heap, mesh[i]) = built[i]

-----------------------------------------------------------------------------
(* C17: what the operations of Vector3 change *)

ReturningOps == {"copy", "normalized", "cross", "+", "-", "*", "/"}

InPlaceOps == {"normalize", "+=", "-=", "*=", "/="}

\* The last operation returned a Vector3 that did not exist before it and
\* changed no Vector3 that did.
ReturnedNew ==
    /\ Len(heap) = Len(done.before) + 1
    /\ done.ref = Len(heap)
    /\ \A v \in DOMAIN done.before : heap[v] = done.before[v]

\* The last operation made no Vector3 and changed none but self.
ChangedOnlySelf ==
    /\ Len(heap) = Len(done.before)
    /\ \A v \in DOMAIN done.before :
           v # done.self => heap[v] = done.before[v]

\* C17 as stated: the returning operations leave self and other unchanged and
\* return a new vector; the in-place operations change only self and leave
\* the other operand unchanged.
C17_VectorFrames ==
    /\ done.op \in ReturningOps => ReturnedNew
    /\ done.op \in InPlaceOps =>
           /\ ChangedOnlySelf
           /\ done.other # 0 => heap[done.other] = done.before[done.other]

\* C17: the returning operations (copy, normalized, cross, +, -, * and / by a
\* scalar) leave self and other unchanged and return a new vector that shares
\* no storage with them; the in-place operations (normalize, +=, -=, *=, /=)
\* change only self, so they leave the other operand unchanged unless it is
\* self itself (v += v).
C17_VectorFramesUnlessSame ==
    /\ done.op \in ReturningOps => ReturnedNew
    /\ done.op \in InPlaceOps =>
           /\ ChangedOnlySelf
           /\ (done.other # 0 /\ done.other # done.self)
                  => heap[done.other] = done.before[done.other]

\* A vector returned by an operation has then been changed in place with an
\* operand of that operation as the other operand.
C17_Witness ==
    /\ done.op \in {"+=", "-="}
    /\ done.self = 3
    /\ done.other \in {1, 2}
    /\ heap[3] # done.before[3]

-----------------------------------------------------------------------------
(* C13: concurrent queries *)

\* What thread t's call returns when it runs alone on the scene.
Alone(t) ==
    LET r == Line_collide_triangles(done.before, LineOf(t), done.mesh)
    IN  r.heap[r.place_at]

\* C13: collide_triangles calls of several threads, each on its own ray,
\* against one collection and interleaved in any order: each call returns the
\* point it returns when it runs alone, and the collection and the rays are as
\* they were.
C13_ConcurrentQueries ==
    done.op = "threads" =>
        /\ heap = done.before
        /\ mesh = done.mesh
        /\ \A t \in Threads : queries[t].pc # "raised"
        /\ \A t \in Threads :
               queries[t].pc = "returned" => queries[t].val = Alone(t)

\* Two threads have returned after steps made while the other was inside its
\* call: one the point of a hit, the other another point.
C13_Witness ==
    /\ done.op = "threads"
    /\ \A t \in Threads : queries[t].pc = "returned" /\ queries[t].overlapped
    /\ \E t, u \in Threads :
           /\ ~IsNaN(queries[t].val[1])
           /\ ~IsNaN(queries[u].val[1])
           /\ queries[t].val # queries[u].val

-----------------------------------------------------------------------------
(* C21: the cross product is orthogonal to its operands *)

\* The vector the last cross call returned, dotted with self and with other.
CrossDotSelf == dot(heap[done.ref], done.before[done.self])

CrossDotOther == dot(heap[done.ref], done.before[done.other])

\* C21 as stated: for any two vectors v1 and v2, v1.cross(v2).dot(v1) is 0 and
\* v1.cross(v2).dot(v2) is 0.
C21_CrossOrthogonal ==
    done.op = "cross" =>
        /\ FEq(CrossDotSelf, F(0))
        /\ FEq(CrossDotOther, F(0))

\* C21: v1.cross(v2).dot(v1) and v1.cross(v2).dot(v2) are 0 whenever the float
\* computation of the products stays finite (and is not rounded); when a
\* component is NaN or infinite, or a product overflows, they are NaN or
\* infinite instead.
C21_CrossOrthogonalWhenFinite ==
    done.op = "cross" =>
        /\ IsFinite(CrossDotSelf) => FEq(CrossDotSelf, F(0))
        /\ IsFinite(CrossDotOther) => FEq(CrossDotOther, F(0))

\* The product of two vectors that are not parallel: it is not the zero vector.
C21_Witness ==
    /\ done.op = "cross"
    /\ done.self # done.other
    /\ ~is_zero(heap[done.ref])
    /\ \A i \in 1..3 : IsFinite(heap[done.ref][i])
    /\ FEq(CrossDotSelf, F(0))
    /\ FEq(CrossDotOther, F(0))

-----------------------------------------------------------------------------
(* C22: the finite sentinel best_distance starts from *)

\* C22: whenever collide reports at least one triangle of the collection as
\* hit with a positive distance, collide_triangles returns the point of a hit
\* and not the NaN vector built before the loop.
C22_SentinelBeaten ==
    (ret.op = "collide_triangles" /\ Hits # {}) =>
        /\ ~Raised(ret.val)
        /\ ret.val.winner \in Hits
        /\ ret.val.place_at # NaNVector

-----------------------------------------------------------------------------
(* C23: collide_triangles is one linear scan *)

\* The indices 1..n in order.
InOrder(n) == [i \in 1..n |-> i]

\* collide has been called on the first k triangles of the collection, once
\* each and in collection order, and on no other.
ScannedInOrder(t) ==
    /\ queries[t].pc = "loop" =>
           /\ queries[t].k \in 0..Len(mesh)
           /\ queries[t].calls = InOrder(queries[t].k)
    /\ queries[t].pc = "returned" => queries[t].calls = InOrder(Len(mesh))

\* C23: collide_triangles calls collide on the triangles in collection order,
\* once each, and every call of it that is not stopped for ever returns, after
\* collide has been called exactly once on each of the n triangles: there is no
\* early exit.
C23_LinearScan ==
    /\ [](\A t \in Threads : ScannedInOrder(t))
    /\ \A t \in Threads :
           (queries[t].pc = "loop") ~>
               (queries[t].pc = "returned"
                    /\ queries[t].calls = InOrder(Len(mesh)))

\* A call has returned the point of its hit on the first triangle after
\* collide was called on the second triangle too.
C23_Witness ==
    \E t \in Threads :
        /\ queries[t].pc = "returned"
        /\ queries[t].calls = <<1, 2>>
        /\ queries[t].val = Q(1, 1, 0)

-----------------------------------------------------------------------------
(* C24: both faces of a triangle are hit *)

\* The ray crosses the plane of tri strictly inside tri, in front of its
\* origin.
CrossesInside(tri) ==
    /\ ~ZeroArea(tri)
    /\ ~FEq(dot(tri.normal, ray.direction), F(0))
    /\ FGt(PlaneDistance(tri), F(0))
    /\ StrictlyInside(tri, PiercePoint(tri))

\* The ray that runs against `ray` from as far beyond the point P as the origin
\* of `ray` is before it.
Opposite(P, d) ==
    Line(VAdd(P, VMul(ray.direction, d)), VMul(ray.direction, F(-1)))

\* C24: a ray that crosses the plane of a triangle of non-zero area strictly
\* inside the triangle at a positive distance is reported as a hit at the
\* crossing point, whatever the sign of direction . normal, and the ray that
\* comes from the other side of the triangle onto the same point is reported
\* as a hit at that point too.
C24_NoBackFaceCulling ==
    ret.op = "collide" =>
        LET tri == Tri(ret.tri)
            P   == PiercePoint(tri)
            d   == PlaneDistance(tri)
        IN  CrossesInside(tri) =>
                /\ ret.val = [point |-> P, distance |-> d]
                /\ collide(Opposite(P, d), tri) = [point |-> P, distance |-> d]

\* A triangle hit on its back face: the ray runs along the normal.
C24_Witness ==
    /\ ret.op = "collide"
    /\ CrossesInside(Tri(ret.tri))
    /\ FGt(dot(Tri(ret.tri).normal, ray.direction), F(0))
    /\ FGt(ret.val.distance, F(0))
    /\ ret.val.point = PiercePoint(Tri(ret.tri))

-----------------------------------------------------------------------------
(* C25: a ray that starts on a surface *)

\* The origin of the ray lies strictly inside tri and the ray is not parallel
\* to tri.
StartsInside(tri) ==
    /\ ~ZeroArea(tri)
    /\ InPlane(tri, ray.origin)
    /\ StrictlyInside(tri, ray.origin)
    /\ LET d0 == dot(tri.normal, ray.direction)
       IN  FLt(d0, F(0)) \/ FGt(d0, F(0))

\* The plane a triangle lies in, built from its first vertex and the two edges
\* at it.
PlaneOf(tri) == Plane(tri.origin, tri.p1_to_p2, tri.p1_to_p3)

\* C25: when the origin of the ray lies strictly inside a triangle the ray is
\* not parallel to, collide returns the origin with distance 0; collide_triangles
\* never returns the hit of such a triangle; collide_plane on the plane of the
\* triangle reports a hit at the origin with distance 0.
C25_StartSurfaceSkipped ==
    /\ (ret.op = "collide" /\ StartsInside(Tri(ret.tri))) =>
           ret.val = [point |-> ray.origin, distance |-> F(0)]
    /\ ret.op = "collide_triangles" =>
           /\ ~Raised(ret.val)
           /\ ret.val.winner # 0 => ~StartsInside(Tri(ret.val.winner))
    /\ ret.op \in {"collide", "collide_triangles"} =>
           \A i \in 1..Len(triangles) :
               StartsInside(Tri(i)) =>
                   collide_plane(ray, PlaneOf(Tri(i))) =
                       [hit |-> TRUE, point |-> ray.origin, distance |-> F(0)]

\* collide_triangles has returned the NaN vector for a collection with a
\* triangle the ray starts inside of, which collide reports at distance 0.
C25_Witness ==
    /\ ret.op = "collide_triangles"
    /\ \E i \in 1..Len(triangles) :
           /\ StartsInside(Tri(i))
           /\ collide(ray, Tri(i)) = [point |-> ray.origin, distance |-> F(0)]
    /\ ret.val.place_at = NaNVector

-----------------------------------------------------------------------------
(* C26: the order of the collection *)

\* The collection in the order p, a permutation of its indices.
Reordered(p) == [i \in 1..Len(triangles) |-> triangles[p[i]]]

\* Two returned points are component-wise equal, or both are the NaN vector.
SamePoint(a, b) ==
    \/ a = NaNVector /\ b = NaNVector
    \/ \A c \in 1..3 : FEq(a[c], b[c])

\* C26: for every permutation of the collection collide_triangles returns a
\* point component-wise equal to the one it returns for the collection as it
\* is, or the NaN vector for both.
C26_OrderIndependent ==
    ret.op = "collide_triangles" =>
        \A p \in Permutations(1..Len(triangles)) :
            LET other == collide_triangles(ray, Reordered(p))
            IN  /\ ~Raised(ret.val)
                /\ ~Raised(other)
                /\ SamePoint(ret.val.place_at, other.place_at)

\* Two different triangles are hit at the same smallest distance, and the
\* point of the first has been returned.
C26_Witness ==
    /\ ret.op = "collide_triangles"
    /\ Len(triangles) = 2
    /\ Tri(1) # Tri(2)
    /\ NearestHits = {1, 2}
    /\ ret.val.winner = 1
    /\ collide(ray, Tri(1)).point = collide(ray, Tri(2)).point
    /\ ret.val.place_at = collide(ray, Tri(2)).point

-----------------------------------------------------------------------------
(* C27 .. C30: the undo history of the editor *)

\* C27: after the editor is constructed undo_history is never empty, whatever
\* undo, redo and document-changed notifications follow: undo moves an entry
\* only when the history holds more than one, so undo_history[-1] can always
\* be read.
C27_UndoHistoryNeverEmpty ==
    /\ Len(undo_history) >= 1
    /\ (event.op = "undo" /\ Len(event.undo) = 1) =>
           undo_history = event.undo /\ redo_history = event.redo

\* Undo has been triggered on a history of one entry, and the entry is still
\* there.
C27_Witness ==
    /\ event.op = "undo"
    /\ Len(event.undo) = 1
    /\ undo_history = event.undo

\* C28: every undo and every redo preserves the concatenation undo_history +
\* redo_history, and a redo that immediately follows an undo made on a history
\* of more than one entry leaves both histories as they were before the undo.
C28_UndoRedoInverse ==
    [][/\ event'.op \in {"undo", "redo"} =>
              undo_history' \o redo_history' = undo_history \o redo_history
       /\ (event.op = "undo" /\ Len(event.undo) > 1 /\ event'.op = "redo") =>
              /\ undo_history' = event.undo
              /\ redo_history' = event.redo]_vars

\* A redo has followed an undo that was made with an entry in redo_history
\* already, and has moved an entry back.
C28_Witness ==
    /\ event.op = "redo"
    /\ event.prev = "undo"
    /\ Len(event.redo) >= 2
    /\ undo_history = Append(event.undo, event.redo[1])
    /\ redo_history = SubSeq(event.redo, 2, Len(event.redo))

\* C29: with the counter at 0, on_document_potentially_changed appends the
\* entry of the current document and empties redo_history if and only if that
\* entry differs from the top of undo_history (as UndoEntry compares: by hash),
\* and leaves both histories unchanged otherwise; no two adjacent entries of
\* undo_history are ever equal.
C29_AppendsIffDiffers ==
    /\ (event.op = "changed" /\ event.count = 0) =>
           LET top        == event.undo[Len(event.undo)]
               undo_entry == generate_undo_entry(level)
           IN  IF top.hash # undo_entry.hash
               THEN /\ undo_history = Append(event.undo, undo_entry)
                    /\ redo_history = << >>
               ELSE /\ undo_history = event.undo
                    /\ redo_history = event.redo
    /\ \A i \in 1..(Len(undo_history) - 1) :
           undo_history[i].hash # undo_history[i + 1].hash

\* A notification has appended an entry and emptied a redo_history that held
\* one.
C29_Witness ==
    /\ event.op = "changed"
    /\ event.count = 0
    /\ event.redo # << >>
    /\ Len(undo_history) = Len(event.undo) + 1
    /\ redo_history = << >>

=============================================================================
